---- MODULE Spec2Model ----
(***************************************************************************)
(* The EPL dashboard of src/app.py.  The script runs top to bottom on      *)
(* every interaction: it reads the loaded dataset df and the widget state  *)
(* and recomputes the filtered view, the overview metrics, the league      *)
(* table with its colour bands and, when the button was pressed, the       *)
(* match prediction.  Teams, seasons and dates are numbered in their sort  *)
(* order.  Floating-point values are IEEE-754 doubles, held exactly as     *)
(* sign and magnitude in units of 2^-60.                                   *)
(***************************************************************************)
EXTENDS Integers, Sequences, FiniteSets, TLC

(* ---- bounds of the model ---- *)
NumSeasons == 2
NumDates == 2
MaxGoals == 2
PredGoals == 4
MaxRows == 14

(* ---- constants of the program ---- *)
DefaultTeamCount == 5
DefaultMaxGoals == 10
MinConfidence == 50
BaseConfidence == 60
MaxConfidence == 95
ConfidenceSlope == 10
WinPoints == 3
TopBand == 4
EuropaBand == 6
RelegationSpan == 2
PpgDigits == 2

(* ---- IEEE-754 double arithmetic ---- *)
LimbBits == 15
LimbBase == 2^LimbBits
NumLimbs == 5
FracLimbs == 4
MantBits == 53

BigZero == [i \in 1..NumLimbs |-> 0]
BigOfInt(k) == [i \in 1..NumLimbs |-> IF i = FracLimbs + 1 THEN k ELSE 0]
BigPow2(d) == [i \in 1..NumLimbs |-> IF i = (d \div LimbBits) + 1 THEN 2^(d % LimbBits) ELSE 0]

BigAdd(a, b) ==
    LET c[i \in 0..NumLimbs] == IF i = 0 THEN 0 ELSE (a[i] + b[i] + c[i-1]) \div LimbBase
    IN [i \in 1..NumLimbs |-> (a[i] + b[i] + c[i-1]) % LimbBase]

BigSub(a, b) ==
    LET w[i \in 0..NumLimbs] == IF i = 0 THEN 0 ELSE IF a[i] - b[i] - w[i-1] < 0 THEN 1 ELSE 0
    IN [i \in 1..NumLimbs |-> (a[i] - b[i] - w[i-1] + LimbBase) % LimbBase]

BigCmp(a, b) ==
    LET c[i \in 0..NumLimbs] == IF i = 0 THEN 0
                                ELSE IF a[i] > b[i] THEN 1 ELSE IF a[i] < b[i] THEN -1 ELSE c[i-1]
    IN c[NumLimbs]

BigMulSmall(a, k) ==
    LET c[i \in 0..NumLimbs] == IF i = 0 THEN 0 ELSE (a[i] * k + c[i-1]) \div LimbBase
    IN [i \in 1..NumLimbs |-> (a[i] * k + c[i-1]) % LimbBase]

BigDivSmall(a, n) ==
    LET r[i \in 1..NumLimbs+1] == IF i = NumLimbs + 1 THEN 0 ELSE (r[i+1] * LimbBase + a[i]) % n
    IN [q |-> [i \in 1..NumLimbs |-> (r[i+1] * LimbBase + a[i]) \div n], r |-> r[1]]

BitLen(a) ==
    LET nz == {i \in 1..NumLimbs : a[i] # 0}
    IN IF nz = {} THEN 0
       ELSE LET t == CHOOSE i \in nz : \A j \in nz : j <= i
            IN (t - 1) * LimbBits + (CHOOSE k \in 1..LimbBits : 2^(k-1) <= a[t] /\ a[t] < 2^k)

BigLow(a, d) == [i \in 1..NumLimbs |-> IF i < (d \div LimbBits) + 1 THEN a[i]
                                       ELSE IF i = (d \div LimbBits) + 1 THEN a[i] % 2^(d % LimbBits)
                                       ELSE 0]
BigBit(a, d) == (a[(d \div LimbBits) + 1] \div 2^(d % LimbBits)) % 2

\* round to nearest, ties to even, at 53 significant bits: a loses its d low
\* bits, low, and gains 2^d when they exceed half of 2^d or tie to an odd bit
RoundUp(c, a, d, sticky) == c > 0 \/ (c = 0 /\ (sticky \/ BigBit(a, d) = 1))
RoundLow(a, d, low, sticky) ==
    IF RoundUp(BigCmp(low, BigPow2(d - 1)), a, d, sticky)
    THEN BigAdd(BigSub(a, low), BigPow2(d))
    ELSE BigSub(a, low)
RoundAt(a, d, sticky) == IF d <= 0 THEN a ELSE RoundLow(a, d, BigLow(a, d), sticky)
RoundBig(a, sticky) == RoundAt(a, BitLen(a) - MantBits, sticky)

Flt(neg, mag) == [neg |-> neg /\ mag # BigZero, mag |-> mag]
FOfInt(k) == Flt(k < 0, BigOfInt(IF k < 0 THEN -k ELSE k))
FQuot(d) == Flt(FALSE, RoundBig(d.q, d.r # 0))
FDiv(s, n) == FQuot(BigDivSmall(BigOfInt(s), n))
FNeg(x) == Flt(~x.neg, x.mag)
FRound(neg, mag) == Flt(neg, RoundBig(mag, FALSE))
FAdd(x, y) ==
    FRound(IF x.neg = y.neg \/ BigCmp(x.mag, y.mag) >= 0 THEN x.neg ELSE y.neg,
           IF x.neg = y.neg THEN BigAdd(x.mag, y.mag)
           ELSE IF BigCmp(x.mag, y.mag) >= 0 THEN BigSub(x.mag, y.mag)
           ELSE BigSub(y.mag, x.mag))
FSub(x, y) == FAdd(x, FNeg(y))
FAbs(x) == Flt(FALSE, x.mag)
FMulInt(x, k) == FRound(x.neg, BigMulSmall(x.mag, k))
FHalve(x) == Flt(x.neg, BigDivSmall(x.mag, 2).q)
FGreater(x, y) ==
    IF x.neg # y.neg THEN y.neg
    ELSE IF x.neg THEN BigCmp(x.mag, y.mag) < 0 ELSE BigCmp(x.mag, y.mag) > 0
FMin(x, y) == IF FGreater(x, y) THEN y ELSE x
FMax(x, y) == IF FGreater(y, x) THEN y ELSE x
FHalf == Flt(FALSE, BigPow2(FracLimbs * LimbBits - 1))
NaN == [neg |-> FALSE, mag |-> <<>>]

\* round(x, 2): the exact value of the double rounded half-even to hundredths
FRoundTie(c, k) == IF c > 0 \/ (c = 0 /\ k % 2 = 1) THEN k + 1 ELSE k
FRoundHundred(v) ==
    FRoundTie(BigCmp(BigLow(v, FracLimbs * LimbBits), BigPow2(FracLimbs * LimbBits - 1)),
              v[FracLimbs + 1])
FRound2(x) == FRoundHundred(BigMulSmall(x.mag, 10^PpgDigits))

\* round(points/played, 2) in hundredths.  Off a tie the double points/played
\* lies on the same side of the tie as the exact quotient, so only a tie
\* needs the double itself.
points_per_game(points, played) ==
    LET q == (points * 10^PpgDigits) \div played
        r == (points * 10^PpgDigits) % played
    IN IF 2 * r < played THEN q
       ELSE IF 2 * r > played THEN q + 1
       ELSE FRound2(FDiv(points, played))

(* ---- sequences and frames ---- *)
Range(s) == {s[i] : i \in DOMAIN s}
Min2(a, b) == IF a < b THEN a ELSE b
SetMax(S) == CHOOSE x \in S : \A y \in S : y <= x
SetMin(S) == CHOOSE x \in S : \A y \in S : x <= y

RECURSIVE sorted(_)
sorted(S) == IF S = {} THEN <<>> ELSE <<SetMin(S)>> \o sorted(S \ {SetMin(S)})

RECURSIVE ColSum(_, _)
ColSum(rows, col) == IF rows = <<>> THEN 0 ELSE rows[1][col] + ColSum(Tail(rows), col)

Where(rows, col, val) == SelectSeq(rows, LAMBDA r : r[col] = val)
Column(rows, col) == {rows[i][col] : i \in DOMAIN rows}

(* ---- DATA LOADING ---- *)
Unparsable == 0
load_data(file) ==
    IF "MatchDate" \in file.columns /\ Unparsable \in Column(file.rows, "MatchDate")
    THEN [ok |-> FALSE, df |-> <<>>, columns |-> {}]
    ELSE [ok |-> TRUE, df |-> file.rows, columns |-> file.columns]

(* ---- ADVANCED FILTERS: widget options and defaults ---- *)
all_teams(d) == sorted(Column(d, "HomeTeam") \cup Column(d, "AwayTeam"))
seasons(d) == sorted(Column(d, "Season"))
min_date(d) == SetMin(Column(d, "MatchDate"))
max_date(d) == SetMax(Column(d, "MatchDate"))
slider_max(d) == SetMax(Column(d, "FullTimeHomeGoals")) + SetMax(Column(d, "FullTimeAwayGoals"))

NoSeasons == {}
NoDates == <<>>
NoWidgets == [selected_teams |-> <<>>, selected_seasons |-> NoSeasons, date_range |-> NoDates,
              min_goals |-> 0, max_goals |-> DefaultMaxGoals, home_team |-> 0, away_team |-> 0]
DefaultWidgets(d, cols) ==
    IF ~({"HomeTeam", "AwayTeam"} \subseteq cols) \/ d = <<>> THEN NoWidgets ELSE
    [selected_teams |-> SubSeq(all_teams(d), 1, Min2(DefaultTeamCount, Len(all_teams(d)))),
     selected_seasons |-> IF "Season" \in cols THEN Range(seasons(d)) ELSE NoSeasons,
     date_range |-> IF "MatchDate" \in cols THEN <<min_date(d), max_date(d)>> ELSE NoDates,
     min_goals |-> 0,
     max_goals |-> DefaultMaxGoals,
     home_team |-> all_teams(d)[1],
     away_team |-> all_teams(d)[1]]

(* ---- Apply filters ---- *)
WithTotalGoals(r) ==
    [c \in DOMAIN r \cup {"TotalGoals"} |->
        IF c = "TotalGoals" THEN r.FullTimeHomeGoals + r.FullTimeAwayGoals ELSE r[c]]

\* the team filter looking at the home side only
filter_home_only(d, cols, w) ==
    LET f0 == d
        f1 == IF w.selected_teams # <<>>
              THEN SelectSeq(f0, LAMBDA r : r.HomeTeam \in Range(w.selected_teams))
              ELSE f0
        f2 == IF "Season" \in cols /\ w.selected_seasons # {}
              THEN SelectSeq(f1, LAMBDA r : r.Season \in w.selected_seasons)
              ELSE f1
        f3 == IF "MatchDate" \in cols /\ Len(w.date_range) = 2
              THEN SelectSeq(f2, LAMBDA r : r.MatchDate >= w.date_range[1]
                                            /\ r.MatchDate <= w.date_range[2])
              ELSE f2
        f4 == [i \in DOMAIN f3 |-> WithTotalGoals(f3[i])]
    IN SelectSeq(f4, LAMBDA r : r.TotalGoals >= w.min_goals /\ r.TotalGoals <= w.max_goals)
filter_rows(d, cols, w) ==
    LET f0 == d
        f1 == IF w.selected_teams # <<>>
              THEN SelectSeq(f0, LAMBDA r : r.HomeTeam \in Range(w.selected_teams)
                                            \/ r.AwayTeam \in Range(w.selected_teams))
              ELSE f0
        f2 == IF "Season" \in cols /\ w.selected_seasons # {}
              THEN SelectSeq(f1, LAMBDA r : r.Season \in w.selected_seasons)
              ELSE f1
        f3 == IF "MatchDate" \in cols /\ Len(w.date_range) = 2
              THEN SelectSeq(f2, LAMBDA r : r.MatchDate >= w.date_range[1]
                                            /\ r.MatchDate <= w.date_range[2])
              ELSE f2
        f4 == [i \in DOMAIN f3 |-> WithTotalGoals(f3[i])]
    IN SelectSeq(f4, LAMBDA r : r.TotalGoals >= w.min_goals /\ r.TotalGoals <= w.max_goals)

\* the filters applied to the dataset itself instead of a copy
filter_in_place(d, cols, w) ==
    [df |-> filter_rows(d, cols, w), filtered_df |-> filter_rows(d, cols, w)]
apply_filters(d, cols, w) ==
    [df |-> d, filtered_df |-> filter_rows(d, cols, w)]

(* ---- TAB 1: OVERVIEW ---- *)
\* the st.metric values of lines 144-148, from the counts of lines 133-137
avg_goals(m) == IF m.total_matches = 0 THEN NaN ELSE FDiv(m.total_goals, m.total_matches)
home_win_pct(m) == FMulInt(FDiv(m.home_wins, m.total_matches), 100)
away_win_pct(m) == FMulInt(FDiv(m.away_wins, m.total_matches), 100)

(* ---- TAB 2: LEAGUE TABLE ---- *)
\* draws counted at home only
standing_home_draws(f, team) ==
    LET home == Where(f, "HomeTeam", team)
        away == Where(f, "AwayTeam", team)
        played == Len(home) + Len(away)
        wins == Len(Where(home, "FullTimeResult", "H")) + Len(Where(away, "FullTimeResult", "A"))
        draws == Len(Where(home, "FullTimeResult", "D"))
        losses == played - wins - draws
        gf == ColSum(home, "FullTimeHomeGoals") + ColSum(away, "FullTimeAwayGoals")
        ga == ColSum(home, "FullTimeAwayGoals") + ColSum(away, "FullTimeHomeGoals")
        points == wins * WinPoints + draws
    IN [Position |-> 0, Team |-> team, Played |-> played, Wins |-> wins, Draws |-> draws,
        Losses |-> losses, GF |-> gf, GA |-> ga, GD |-> gf - ga, Points |-> points,
        PointsPerGame |-> IF played > 0 THEN points_per_game(points, played) ELSE 0]
standing(f, team) ==
    LET home == Where(f, "HomeTeam", team)
        away == Where(f, "AwayTeam", team)
        played == Len(home) + Len(away)
        wins == Len(Where(home, "FullTimeResult", "H")) + Len(Where(away, "FullTimeResult", "A"))
        draws == Len(Where(home, "FullTimeResult", "D")) + Len(Where(away, "FullTimeResult", "D"))
        losses == played - wins - draws
        gf == ColSum(home, "FullTimeHomeGoals") + ColSum(away, "FullTimeAwayGoals")
        ga == ColSum(home, "FullTimeAwayGoals") + ColSum(away, "FullTimeHomeGoals")
        points == wins * WinPoints + draws
    IN [Position |-> 0, Team |-> team, Played |-> played, Wins |-> wins, Draws |-> draws,
        Losses |-> losses, GF |-> gf, GA |-> ga, GD |-> gf - ga, Points |-> points,
        PointsPerGame |-> IF played > 0 THEN points_per_game(points, played) ELSE 0]

RECURSIVE league_table(_, _)
league_table(f, teams) ==
    IF teams = <<>> THEN <<>>
    ELSE LET row == standing(f, Head(teams))
         IN (IF row.Played = 0 THEN <<>> ELSE <<row>>) \o league_table(f, Tail(teams))

\* rank order of sort_values(by=['Points', 'GD'], ascending=False)
RanksLevelOrAbove(a, b) == a.Points > b.Points \/ (a.Points = b.Points /\ a.GD >= b.GD)
RanksAbove(a, b) == a.Points > b.Points \/ (a.Points = b.Points /\ a.GD > b.GD)

RECURSIVE InsertRanked(_, _)
InsertRanked(table, row) ==
    IF table = <<>> THEN <<row>>
    ELSE IF RanksAbove(row, Head(table)) THEN <<row>> \o table
    ELSE <<Head(table)>> \o InsertRanked(Tail(table), row)

RECURSIVE sort_values(_)
sort_values(table) ==
    IF table = <<>> THEN <<>>
    ELSE InsertRanked(sort_values(SubSeq(table, 1, Len(table) - 1)), table[Len(table)])

reset_positions(t) == [i \in DOMAIN t |-> [t[i] EXCEPT !.Position = i]]
league_df_of(f, teams) == reset_positions(sort_values(league_table(f, teams)))

Green == "#d4edda"
Yellow == "#fff3cd"
Red == "#f8d7da"
Plain == ""
color_positions_strict(position, size) ==
    IF position <= TopBand THEN Green
    ELSE IF position <= EuropaBand THEN Yellow
    ELSE IF position > size - RelegationSpan THEN Red
    ELSE Plain
color_positions(position, size) ==
    IF position <= TopBand THEN Green
    ELSE IF position <= EuropaBand THEN Yellow
    ELSE IF position >= size - RelegationSpan THEN Red
    ELSE Plain

styled_df_of(table) == [i \in DOMAIN table |-> color_positions(table[i].Position, Len(table))]

idxmax(table, col) ==
    CHOOSE i \in DOMAIN table : /\ \A j \in DOMAIN table : table[j][col] <= table[i][col]
                                /\ \A j \in 1..(i-1) : table[j][col] < table[i][col]
idxmin(table, col) ==
    CHOOSE i \in DOMAIN table : /\ \A j \in DOMAIN table : table[j][col] >= table[i][col]
                                /\ \A j \in 1..(i-1) : table[j][col] > table[i][col]

top_performers(table) ==
    [top_scorer |-> table[idxmax(table, "GF")].Team,
     best_defense |-> table[idxmin(table, "GA")].Team,
     most_efficient |-> table[idxmax(table, "PointsPerGame")].Team]

(* ---- TAB 4: PREDICTIONS ---- *)
NoResult == {}
confidence_uncapped(a, b) ==
    FAdd(FOfInt(BaseConfidence), FMulInt(FAbs(FSub(a, b)), ConfidenceSlope))
decisive_confidence(a, b) ==
    FMin(FOfInt(MaxConfidence),
         FAdd(FOfInt(BaseConfidence), FMulInt(FAbs(FSub(a, b)), ConfidenceSlope)))
predict_strengths(home_strength, away_strength, predicted_goals) ==
    IF FGreater(home_strength, FAdd(away_strength, FHalf))
    THEN [prediction |-> "Home Win",
          confidence |-> decisive_confidence(home_strength, away_strength),
          predicted_goals |-> predicted_goals,
          home_strength |-> home_strength, away_strength |-> away_strength]
    ELSE IF FGreater(away_strength, FAdd(home_strength, FHalf))
    THEN [prediction |-> "Away Win",
          confidence |-> decisive_confidence(away_strength, home_strength),
          predicted_goals |-> predicted_goals,
          home_strength |-> home_strength, away_strength |-> away_strength]
    ELSE [prediction |-> "Draw", confidence |-> FOfInt(MinConfidence),
          predicted_goals |-> predicted_goals,
          home_strength |-> home_strength, away_strength |-> away_strength]

predict_means(home_avg_scored, home_avg_conceded, away_avg_scored, away_avg_conceded) ==
    predict_strengths(FSub(home_avg_scored, home_avg_conceded),
                      FSub(away_avg_scored, away_avg_conceded),
                      FMax(FOfInt(0), FHalve(FAdd(home_avg_scored, away_avg_scored))))

predict_data(home_data, away_data) ==
    IF Len(home_data) > 0 /\ Len(away_data) > 0
    THEN [result |-> {predict_means(FDiv(ColSum(home_data, "FullTimeHomeGoals"), Len(home_data)),
                                    FDiv(ColSum(home_data, "FullTimeAwayGoals"), Len(home_data)),
                                    FDiv(ColSum(away_data, "FullTimeAwayGoals"), Len(away_data)),
                                    FDiv(ColSum(away_data, "FullTimeHomeGoals"), Len(away_data)))},
          warning |-> FALSE]
    ELSE [result |-> NoResult, warning |-> TRUE]

predict_outcome(f, home, away) ==
    predict_data(Where(f, "HomeTeam", home), Where(f, "AwayTeam", away))

(* ---- one execution of the script ---- *)
NoException == [type |-> "none", key |-> ""]
KeyError(col) == [type |-> "KeyError", key |-> col]
ZeroDivisionError == [type |-> "ZeroDivisionError", key |-> ""]
ValueError(col) == [type |-> "ValueError", key |-> col]

NoMetrics == <<>>
Merge(r1, r2) == [k \in DOMAIN r1 \cup DOMAIN r2 |-> IF k \in DOMAIN r2 THEN r2[k] ELSE r1[k]]

Stopped == [type |-> "stopped", key |-> ""]
Blank == [exception |-> NoException, reached |-> <<>>, df |-> <<>>, filtered_df |-> <<>>,
          overview |-> NoMetrics, league_df |-> <<>>, styled_df |-> <<>>,
          performers |-> NoMetrics, predicted |-> NoResult, warning |-> FALSE]

SidebarColumns == <<"HomeTeam", "AwayTeam", "FullTimeHomeGoals", "FullTimeAwayGoals">>
FirstMissing(cols, needed) ==
    LET miss == {i \in DOMAIN needed : needed[i] \notin cols}
    IN IF miss = {} THEN 0 ELSE SetMin(miss)

goal_metrics(f) ==
    [total_matches |-> Len(f),
     total_goals |-> ColSum(f, "TotalGoals")]
result_metrics(f) ==
    [home_wins |-> Len(Where(f, "FullTimeResult", "H")),
     away_wins |-> Len(Where(f, "FullTimeResult", "A"))]

Running(s) == s.exception = NoException
Raise(s, e) == [s EXCEPT !.exception = e]

Sidebar(d, cols) ==
    IF FirstMissing(cols, SidebarColumns) # 0
    THEN Raise([Blank EXCEPT !.df = d], KeyError(SidebarColumns[FirstMissing(cols, SidebarColumns)]))
    ELSE [Blank EXCEPT !.df = d, !.reached = <<"sidebar">>]

Filtered(s, a) ==
    [s EXCEPT !.df = a.df, !.filtered_df = a.filtered_df, !.reached = Append(@, "filter")]
Filters(s, cols, w) == IF Running(s) THEN Filtered(s, apply_filters(s.df, cols, w)) ELSE s

Metrics(s) ==
    IF s.overview.total_matches = 0 THEN Raise(s, ZeroDivisionError)
    ELSE [s EXCEPT !.reached = Append(@, "overview")]
Tab1(s, cols) ==
    IF ~Running(s) THEN s
    ELSE IF "FullTimeResult" \notin cols
    THEN Raise([s EXCEPT !.overview = goal_metrics(s.filtered_df)], KeyError("FullTimeResult"))
    ELSE Metrics([s EXCEPT !.overview = Merge(goal_metrics(s.filtered_df),
                                              result_metrics(s.filtered_df))])

teams_to_show(d, w) == IF w.selected_teams # <<>> THEN w.selected_teams ELSE all_teams(d)
Ranked(s, ranked) ==
    IF ranked = <<>> THEN Raise(s, KeyError("Points"))
    ELSE [s EXCEPT !.league_df = ranked,
                   !.styled_df = styled_df_of(ranked),
                   !.performers = top_performers(ranked),
                   !.reached = Append(@, "league_table")]
Tab2(s, w) ==
    IF Running(s) THEN Ranked(s, league_df_of(s.filtered_df, teams_to_show(s.df, w))) ELSE s

Predicted(s, p) ==
    [s EXCEPT !.predicted = p.result, !.warning = p.warning,
              !.reached = @ \o <<"analytics", "predictions", "deep_dive", "footer">>]
Tab4(s, w, button) ==
    IF ~Running(s) THEN s
    ELSE Predicted(s, IF button THEN predict_outcome(s.filtered_df, w.home_team, w.away_team)
                      ELSE [result |-> NoResult, warning |-> FALSE])

Script(d, cols, w, button) ==
    Tab4(Tab2(Tab1(Filters(Sidebar(d, cols), cols, w), cols), w), w, button)

(* ---- state ---- *)
VARIABLES
    source,            \* the file the dataset is loaded from, if any
    df, columns,       \* the loaded dataset and its columns
    selected_teams, selected_seasons, date_range, min_goals, max_goals,
    home_team, away_team,
    button,            \* "Predict Match Outcome" pressed for this run
    filtered_df, overview, league_df, styled_df, performers,
    predicted, warning, exception, reached,
    pc

data == <<source, df, columns>>
widgets == <<selected_teams, selected_seasons, date_range, min_goals, max_goals,
             home_team, away_team>>
outputs == <<filtered_df, overview, league_df, styled_df, performers,
             predicted, warning, exception, reached>>
vars == <<data, widgets, button, outputs, pc>>

W == [selected_teams |-> selected_teams, selected_seasons |-> selected_seasons,
      date_range |-> date_range, min_goals |-> min_goals, max_goals |-> max_goals,
      home_team |-> home_team, away_team |-> away_team]

Set(w) ==
    /\ selected_teams' = w.selected_teams
    /\ selected_seasons' = w.selected_seasons
    /\ date_range' = w.date_range
    /\ min_goals' = w.min_goals
    /\ max_goals' = w.max_goals
    /\ home_team' = w.home_team
    /\ away_team' = w.away_team

Show(o) ==
    /\ df' = o.df
    /\ filtered_df' = o.filtered_df
    /\ overview' = o.overview
    /\ league_df' = o.league_df
    /\ styled_df' = o.styled_df
    /\ performers' = o.performers
    /\ predicted' = o.predicted
    /\ warning' = o.warning
    /\ exception' = o.exception
    /\ reached' = o.reached

(* ---- the run triggered by every interaction ---- *)
Loads(l, w, b) ==
    IF l.ok THEN Script(l.df, l.columns, w, b) ELSE Raise(Blank, ValueError("MatchDate"))
Run(src, w, b) ==
    IF src = {} THEN Raise(Blank, Stopped) ELSE Loads(load_data(CHOOSE f \in src : TRUE), w, b)

Rendered(stage) == pc = "shown" /\ stage \in Range(reached)

Interact(w, b) ==
    /\ Set(w)
    /\ button' = b
    /\ Show(Run(source, w, b))
    /\ UNCHANGED <<source, columns>>
    /\ pc' = "shown"

\* the script executes with the current widget state
Rerun ==
    /\ pc = "start"
    /\ Interact(W, button)

Injective(s) == \A i, j \in DOMAIN s : i # j => s[i] # s[j]
Selections(options) ==
    {s \in UNION {[1..n -> options] : n \in 0..Cardinality(options)} : Injective(s)}
DateRanges(lo, hi) ==
    {<<a>> : a \in lo..hi} \cup {r \in (lo..hi) \X (lo..hi) : r[1] <= r[2]}
GoalRanges(top) == {r \in (0..top) \X (0..top) : r[1] <= r[2]}

\* what each widget offers, when the dataset lets the script build it
TeamOptions ==
    IF {"HomeTeam", "AwayTeam"} \subseteq columns /\ df # <<>> THEN Range(all_teams(df)) ELSE {}
SeasonOptions ==
    IF "Season" \in columns /\ df # <<>> THEN SUBSET Range(seasons(df)) ELSE {}
DateOptions ==
    IF "MatchDate" \in columns /\ df # <<>> THEN DateRanges(min_date(df), max_date(df)) ELSE {}
GoalOptions ==
    IF {"FullTimeHomeGoals", "FullTimeAwayGoals"} \subseteq columns /\ df # <<>>
    THEN GoalRanges(slider_max(df)) ELSE {}

SelectTeams(teams) ==
    /\ Rendered("sidebar")
    /\ teams # selected_teams
    /\ Interact([W EXCEPT !.selected_teams = teams], FALSE)

SelectSeasons(ss) ==
    /\ Rendered("sidebar") /\ "Season" \in columns
    /\ ss # selected_seasons
    /\ Interact([W EXCEPT !.selected_seasons = ss], FALSE)

PickDates(range) ==
    /\ Rendered("sidebar") /\ "MatchDate" \in columns
    /\ range # date_range
    /\ Interact([W EXCEPT !.date_range = range], FALSE)

SlideGoals(lo, hi) ==
    /\ Rendered("sidebar")
    /\ <<lo, hi>> # <<min_goals, max_goals>>
    /\ Interact([W EXCEPT !.min_goals = lo, !.max_goals = hi], FALSE)

SelectHome(team) ==
    /\ Rendered("predictions")
    /\ team # home_team
    /\ Interact([W EXCEPT !.home_team = team], FALSE)

SelectAway(team) ==
    /\ Rendered("predictions")
    /\ team # away_team
    /\ Interact([W EXCEPT !.away_team = team], FALSE)

\* the button offered whatever the previous run rendered
ClickPredictUnrendered ==
    /\ pc = "shown"
    /\ Interact(W, TRUE)
ClickPredict ==
    /\ Rendered("predictions")
    /\ Interact(W, TRUE)

RefreshData ==
    /\ Rendered("footer")
    /\ Interact(W, FALSE)

Uploaded(file, l, w) ==
    /\ source' = {file}
    /\ columns' = l.columns
    /\ Set(w)
    /\ button' = FALSE
    /\ Show(Run({file}, w, FALSE))
    /\ pc' = "shown"
Upload(file) ==
    /\ pc = "shown"
    /\ source # {file}
    /\ Uploaded(file, load_data(file), DefaultWidgets(load_data(file).df, load_data(file).columns))

(* ---- datasets ---- *)
AllColumns == {"HomeTeam", "AwayTeam", "FullTimeHomeGoals", "FullTimeAwayGoals",
               "FullTimeResult", "Season", "MatchDate"}
ResultOf(hg, ag) == IF hg > ag THEN "H" ELSE IF hg < ag THEN "A" ELSE "D"
Row(h, a, hg, ag, season, date) ==
    [HomeTeam |-> h, AwayTeam |-> a, FullTimeHomeGoals |-> hg, FullTimeAwayGoals |-> ag,
     FullTimeResult |-> ResultOf(hg, ag), Season |-> season, MatchDate |-> date]
Project(rows, cols) == [i \in DOMAIN rows |-> [c \in cols |-> rows[i][c]]]
File(rows, cols) == [columns |-> cols, rows |-> Project(rows, cols)]

Loaded(file, w, b) ==
    /\ source = {file}
    /\ df = load_data(file).df
    /\ columns = load_data(file).columns
    /\ selected_teams = w.selected_teams
    /\ selected_seasons = w.selected_seasons
    /\ date_range = w.date_range
    /\ min_goals = w.min_goals
    /\ max_goals = w.max_goals
    /\ home_team = w.home_team
    /\ away_team = w.away_team
    /\ button = b
    /\ filtered_df = Blank.filtered_df
    /\ overview = Blank.overview
    /\ league_df = Blank.league_df
    /\ styled_df = Blank.styled_df
    /\ performers = Blank.performers
    /\ predicted = Blank.predicted
    /\ warning = Blank.warning
    /\ exception = Blank.exception
    /\ reached = Blank.reached
    /\ pc = "start"

(* ---- the filter engine on every filter specification ---- *)
Fixtures == <<<<1, 2>>, <<2, 3>>>>
FilterFiles ==
    {File([i \in DOMAIN Fixtures |-> Row(Fixtures[i][1], Fixtures[i][2], g[i], 0, s[i], d[i])], cols) :
        g \in [DOMAIN Fixtures -> 0..MaxGoals],
        s \in {x \in [DOMAIN Fixtures -> 1..NumSeasons] : x[1] = 1},
        d \in {x \in [DOMAIN Fixtures -> 1..NumDates] : x[1] = 1},
        cols \in {AllColumns \ x : x \in SUBSET {"Season", "MatchDate"}}}

FilterSpecs(file) ==
    LET d == file.rows
        dflt == DefaultWidgets(d, file.columns)
    IN {[dflt EXCEPT !.selected_teams = t, !.selected_seasons = ss, !.date_range = dr,
                     !.min_goals = g[1], !.max_goals = g[2]] :
            t \in Selections(Range(all_teams(d))),
            ss \in IF "Season" \in file.columns THEN SUBSET Range(seasons(d)) ELSE {NoSeasons},
            dr \in IF "MatchDate" \in file.columns THEN DateRanges(min_date(d), max_date(d))
                   ELSE {NoDates},
            g \in GoalRanges(slider_max(d)) \cup {<<0, DefaultMaxGoals>>}}

InitFilter == \E file \in FilterFiles : \E w \in FilterSpecs(file) : Loaded(file, w, FALSE)
NextFilter == Rerun
SpecFilter == InitFilter /\ [][NextFilter]_vars

(* ---- the table aggregator on every small dataset and team order ---- *)
Scores(top) == (0..top) \X (0..top)
TableFixtures == {<<<<1, 2>>, <<2, 3>>, <<3, 1>>>>, <<<<1, 2>>, <<2, 1>>, <<1, 3>>>>}
TableFiles ==
    {File([i \in DOMAIN fx |-> Row(fx[i][1], fx[i][2], g[i][1], g[i][2], 1, 1)], AllColumns) :
        fx \in TableFixtures, g \in [1..3 -> Scores(MaxGoals)]}

InitTable ==
    \E file \in TableFiles : \E t \in Selections(Range(all_teams(file.rows))) :
        Loaded(file, [DefaultWidgets(file.rows, file.columns) EXCEPT !.selected_teams = t], FALSE)
NextTable == Rerun
SpecTable == InitTable /\ [][NextTable]_vars

(* ---- the predictor on every score line of a fixture list ---- *)
PredFixtures == <<<<1, 2>>, <<1, 2>>, <<3, 2>>>>
ScoreLines(top) ==
    {File([i \in DOMAIN PredFixtures |-> Row(PredFixtures[i][1], PredFixtures[i][2],
                                             g[i][1], g[i][2], 1, 1)], AllColumns) :
        g \in {x \in [DOMAIN PredFixtures -> Scores(top)] :
                 x[1][1] * (top + 1) + x[1][2] <= x[2][1] * (top + 1) + x[2][2]}}

NextPredict ==
    \/ Rerun
    \/ \E t \in TeamOptions : SelectHome(t)
    \/ \E t \in TeamOptions : SelectAway(t)
    \/ ClickPredict

InitPredict ==
    \E file \in ScoreLines(MaxGoals) : Loaded(file, DefaultWidgets(file.rows, file.columns), FALSE)
SpecPredict == InitPredict /\ [][NextPredict]_vars

BoundaryLines ==
    {file \in ScoreLines(PredGoals) :
        file.rows[1].FullTimeHomeGoals = 0 /\ file.rows[1].FullTimeAwayGoals = 0}
InitBoundary ==
    \E file \in BoundaryLines : Loaded(file, DefaultWidgets(file.rows, file.columns), FALSE)
SpecBoundary == InitBoundary /\ [][NextPredict]_vars

(* ---- the colour bands on every table size ---- *)
StyleRow ==
    /\ pc = "style"
    /\ Len(styled_df) < Len(league_df)
    /\ styled_df' = Append(styled_df,
                           color_positions(league_df[Len(styled_df) + 1].Position, Len(league_df)))
    /\ UNCHANGED <<data, widgets, button, filtered_df, overview, league_df, performers,
                   predicted, warning, exception, reached, pc>>

InitBands ==
    \E n \in 0..MaxRows :
        /\ source = {} /\ df = <<>> /\ columns = {}
        /\ selected_teams = <<>> /\ selected_seasons = {} /\ date_range = <<>>
        /\ min_goals = 0 /\ max_goals = DefaultMaxGoals /\ home_team = 0 /\ away_team = 0
        /\ button = FALSE
        /\ filtered_df = <<>> /\ overview = NoMetrics /\ performers = NoMetrics
        /\ league_df = [i \in 1..n |-> [Position |-> i]]
        /\ styled_df = <<>>
        /\ predicted = NoResult /\ warning = FALSE /\ exception = NoException
        /\ reached = <<>>
        /\ pc = "style"
NextBands == StyleRow
SpecBands == InitBands /\ [][NextBands]_vars

(* ---- a session ---- *)
SessionRows == <<Row(1, 2, 1, 0, 1, 1), Row(2, 3, 0, 0, 2, 2)>>
BadDates == [i \in DOMAIN SessionRows |-> [SessionRows[i] EXCEPT !.MatchDate = Unparsable]]
SessionFiles ==
    {File(SessionRows, cols) : cols \in {AllColumns} \cup {AllColumns \ {c} : c \in AllColumns}}
    \cup {File(BadDates, AllColumns)}

Init ==
    \/ \E file \in SessionFiles :
          Loaded(file, DefaultWidgets(load_data(file).df, load_data(file).columns), FALSE)
    \/ /\ source = {} /\ df = <<>> /\ columns = {}
       /\ selected_teams = <<>> /\ selected_seasons = {} /\ date_range = <<>>
       /\ min_goals = 0 /\ max_goals = DefaultMaxGoals /\ home_team = 0 /\ away_team = 0
       /\ button = FALSE
       /\ filtered_df = <<>> /\ overview = NoMetrics /\ performers = NoMetrics
       /\ league_df = <<>> /\ styled_df = <<>>
       /\ predicted = NoResult /\ warning = FALSE /\ exception = NoException
       /\ reached = <<>>
       /\ pc = "start"

Next ==
    \/ Rerun
    \/ \E t \in Selections(TeamOptions) : SelectTeams(t)
    \/ \E ss \in SeasonOptions : SelectSeasons(ss)
    \/ \E r \in DateOptions : PickDates(r)
    \/ \E g \in GoalOptions : SlideGoals(g[1], g[2])
    \/ \E t \in TeamOptions : SelectHome(t)
    \/ \E t \in TeamOptions : SelectAway(t)
    \/ ClickPredict
    \/ RefreshData
    \/ \E file \in SessionFiles : Upload(file)

Spec == Init /\ [][Next]_vars

(***************************************************************************)
(* Properties                                                              *)
(***************************************************************************)
Shown(stage) == pc = "shown" /\ stage \in Range(reached)
Indices(rows, P(_)) == {i \in DOMAIN rows : P(rows[i])}
Count(rows, P(_)) == Cardinality(Indices(rows, P))
Nth(S, k) == CHOOSE i \in S : Cardinality({j \in S : j < i}) = k - 1
WithoutTotal(r) == [c \in DOMAIN r \ {"TotalGoals"} |-> r[c]]

TeamsPass(r) == selected_teams = <<>> \/ \E k \in DOMAIN selected_teams :
                                            selected_teams[k] = r.HomeTeam \/ selected_teams[k] = r.AwayTeam
SeasonPasses(r) == "Season" \notin columns \/ selected_seasons = {} \/ r.Season \in selected_seasons
DatePasses(r) == "MatchDate" \notin columns \/ Len(date_range) # 2
                 \/ (date_range[1] <= r.MatchDate /\ r.MatchDate <= date_range[2])
GoalsPass(r) == /\ min_goals <= r.FullTimeHomeGoals + r.FullTimeAwayGoals
                /\ r.FullTimeHomeGoals + r.FullTimeAwayGoals <= max_goals
Satisfies(r) == TeamsPass(r) /\ SeasonPasses(r) /\ DatePasses(r) /\ GoalsPass(r)

IsViewOf(view, rows) ==
    LET kept == Indices(rows, Satisfies)
    IN /\ Len(view) = Cardinality(kept)
       /\ \A k \in DOMAIN view : WithoutTotal(view[k]) = rows[Nth(kept, k)]

\* C1: the filtered view is exactly the records of the dataset that satisfy
\* every active predicate (teams, seasons, date range, total goals), in the
\* dataset's order; an empty selection or an incomplete date range does not
\* constrain.
C1_FilterExact == Shown("filter") => IsViewOf(filtered_df, df)

\* a view that keeps one record of two under four active predicates
C1_Witness ==
    /\ Shown("filter") /\ columns = AllColumns
    /\ selected_teams # <<>> /\ selected_seasons # {} /\ Len(date_range) = 2 /\ min_goals > 0
    /\ Len(df) = 2 /\ Len(filtered_df) = 1

Involves(team, r) == r.HomeTeam = team \/ r.AwayTeam = team
WonBy(team, r) == \/ (r.HomeTeam = team /\ r.FullTimeResult = "H")
                  \/ (r.AwayTeam = team /\ r.FullTimeResult = "A")
DrawnBy(team, r) == (r.HomeTeam = team \/ r.AwayTeam = team) /\ r.FullTimeResult = "D"

\* C2: every row of the league table has wins + draws + losses = played and
\* points = 3 * wins + draws, where played counts the filtered records the
\* team is in, wins the home records with result H and the away records with
\* result A, and draws the records with result D.
C2_StandingSums ==
    Shown("league_table") =>
        \A i \in DOMAIN league_df :
            LET row == league_df[i]
            IN /\ row.Wins + row.Draws + row.Losses = row.Played
               /\ row.Points = 3 * row.Wins + row.Draws
               /\ row.Played = Count(filtered_df, LAMBDA r : Involves(row.Team, r))
               /\ row.Wins = Count(filtered_df, LAMBDA r : WonBy(row.Team, r))
               /\ row.Draws = Count(filtered_df, LAMBDA r : DrawnBy(row.Team, r))

\* the standing of the spec's example: played 2, won 1, drawn 1, 4 points
C2_Witness ==
    /\ Shown("league_table")
    /\ \E i \in DOMAIN league_df :
          /\ league_df[i].Played = 2 /\ league_df[i].Wins = 1 /\ league_df[i].Draws = 1
          /\ league_df[i].Losses = 0 /\ league_df[i].Points = 4
          /\ league_df[i].GF = 2 /\ league_df[i].GA = 1

IterationOrder == IF selected_teams # <<>> THEN selected_teams ELSE all_teams(df)
PlaceOf(team) == CHOOSE k \in DOMAIN IterationOrder : IterationOrder[k] = team

\* C3: the league table is ranked by points descending, then goal difference
\* descending; rows equal on both keep the order in which their teams were
\* iterated; positions are 1..n in that order.
C3_Ranking ==
    Shown("league_table") =>
        /\ \A i \in DOMAIN league_df : league_df[i].Position = i
        /\ \A i, j \in DOMAIN league_df :
              i < j => \/ league_df[i].Points > league_df[j].Points
                       \/ /\ league_df[i].Points = league_df[j].Points
                          /\ league_df[i].GD > league_df[j].GD
                       \/ /\ league_df[i].Points = league_df[j].Points
                          /\ league_df[i].GD = league_df[j].GD
                          /\ PlaceOf(league_df[i].Team) < PlaceOf(league_df[j].Team)

\* a leader on points above two rows tied on points and goal difference that
\* stand in the order of the selection, against the alphabetical order
C3_Witness ==
    /\ Shown("league_table") /\ Len(league_df) = 3
    /\ league_df[1].Points > league_df[2].Points
    /\ league_df[2].Points = league_df[3].Points /\ league_df[2].GD = league_df[3].GD
    /\ league_df[2].Team > league_df[3].Team

Cap(x) == IF FGreater(x, FOfInt(95)) THEN FOfInt(95) ELSE x
Decisive(h, a) == Cap(FAdd(FOfInt(60), FMulInt(FAbs(FSub(h, a)), 10)))

\* C4: a prediction has a confidence within [50, 95] and expected goals of at
\* least 0; a Draw has confidence 50, a Home Win or an Away Win has
\* confidence min(95, 60 + 10 * |homeStrength - awayStrength|).
C4_Confidence ==
    Shown("predictions") =>
        \A p \in predicted :
            /\ ~FGreater(FOfInt(50), p.confidence)
            /\ ~FGreater(p.confidence, FOfInt(95))
            /\ ~FGreater(FOfInt(0), p.predicted_goals)
            /\ p.prediction = "Draw" => p.confidence = FOfInt(50)
            /\ p.prediction \in {"Home Win", "Away Win"} =>
                  p.confidence = Decisive(p.home_strength, p.away_strength)

\* a Home Win whose raw confidence of 100 is cut to 95
C4_Witness ==
    /\ Shown("predictions")
    /\ \E p \in predicted :
          /\ p.prediction = "Home Win" /\ p.confidence = FOfInt(95)
          /\ FGreater(FSub(p.home_strength, p.away_strength), FOfInt(3))

RECURSIVE Margin(_, _, _)
Margin(rows, forCol, againstCol) ==
    IF rows = <<>> THEN 0
    ELSE rows[1][forCol] - rows[1][againstCol] + Margin(Tail(rows), forCol, againstCol)
HomeRows == SelectSeq(filtered_df, LAMBDA r : r.HomeTeam = home_team)
AwayRows == SelectSeq(filtered_df, LAMBDA r : r.AwayTeam = away_team)
\* homeStrength = hd / hn and awayStrength = ad / an as exact quotients
ExactOutcome ==
    LET hn == Len(HomeRows)
        an == Len(AwayRows)
        hd == Margin(HomeRows, "FullTimeHomeGoals", "FullTimeAwayGoals")
        ad == Margin(AwayRows, "FullTimeAwayGoals", "FullTimeHomeGoals")
    IN IF 2 * hd * an > 2 * ad * hn + hn * an THEN "Home Win"
       ELSE IF 2 * ad * hn > 2 * hd * an + hn * an THEN "Away Win"
       ELSE "Draw"

\* C5: the prediction is Home Win exactly when homeStrength > awayStrength +
\* 0.5, Away Win exactly when awayStrength > homeStrength + 0.5 and Draw
\* otherwise, the strengths being mean goals scored minus mean goals
\* conceded; a difference of exactly 0.5 yields Draw.
C5_ThresholdRule ==
    Shown("predictions") => \A p \in predicted : p.prediction = ExactOutcome

\* C6: a predictor invocation for which the home team or the away team has
\* no match in the filtered view warns and produces no outcome, confidence
\* or expected goals; it takes no mean over an empty set.
C6_InsufficientData ==
    (pc = "shown" /\ button) =>
        /\ filtered_df # <<>>
        /\ predicted # NoResult => (HomeRows # <<>> /\ AwayRows # <<>>)
        /\ (\/ Count(filtered_df, LAMBDA r : Involves(home_team, r)) = 0
            \/ Count(filtered_df, LAMBDA r : Involves(away_team, r)) = 0)
              => (warning /\ predicted = NoResult)

\* the button pressed for a home team that the filters left without a match
C6_Witness ==
    /\ pc = "shown" /\ button /\ warning /\ predicted = NoResult
    /\ filtered_df # <<>>
    /\ Count(filtered_df, LAMBDA r : Involves(home_team, r)) = 0

\* C7: when the filters leave no record, the overview metrics, the league
\* table and the top performers complete without a division by a zero count
\* and without an error.
C7_EmptyViewHandled ==
    (Shown("filter") /\ filtered_df = <<>>) =>
        (exception = NoException /\ Shown("league_table"))

RequiredColumns == {"HomeTeam", "AwayTeam", "FullTimeHomeGoals", "FullTimeAwayGoals",
                    "FullTimeResult", "MatchDate"}
Invalid(file) ==
    (RequiredColumns \ file.columns)
    \cup (IF "MatchDate" \in file.columns /\ Unparsable \in Column(file.rows, "MatchDate")
          THEN {"MatchDate"} ELSE {})

\* C8: an upload that misses a required column or has unparsable dates is
\* rejected before any filtering, aggregation or prediction step runs, and
\* the rejection names a missing or invalid column.
C8_RejectedFirst ==
    pc = "shown" =>
        \A file \in source :
            Invalid(file) # {} =>
                (reached = <<>> /\ exception # NoException /\ exception.key \in Invalid(file))

\* C9 as claimed: ranks 1-4 are top-4, ranks 5-6 are 5th-6th and every rank
\* among the last three is bottom-3, for every table size.
C9_LastThreeAlways ==
    \A i \in DOMAIN styled_df :
        /\ i <= 4 => styled_df[i] = Green
        /\ (5 <= i /\ i <= 6) => styled_df[i] = Yellow
        /\ i >= Len(league_df) - 2 => styled_df[i] = Red

\* C9: ranks 1-4 are top-4, ranks 5-6 are 5th-6th, and a rank among the last
\* three is bottom-3 only if it is above 6; every other rank has no band.
C9_Bands ==
    \A i \in DOMAIN styled_df :
        /\ styled_df[i] = Green <=> i <= 4
        /\ styled_df[i] = Yellow <=> (5 <= i /\ i <= 6)
        /\ styled_df[i] = Red <=> (i > 6 /\ i >= Len(league_df) - 2)
        /\ styled_df[i] = Plain <=> (i > 6 /\ i < Len(league_df) - 2)

\* a styled table of ten rows or more: four top rows, two 5th-6th, an
\* unflagged seventh and three bottom rows
C9_Witness ==
    /\ Len(league_df) >= 10 /\ Len(styled_df) = Len(league_df)
    /\ styled_df[4] = Green /\ styled_df[6] = Yellow /\ styled_df[7] = Plain
    /\ \A i \in (Len(league_df) - 2)..Len(league_df) : styled_df[i] = Red

FreshView ==
    /\ Shown("filter") => IsViewOf(filtered_df, df)
    /\ Shown("league_table") =>
          /\ \A i \in DOMAIN league_df : Count(filtered_df, LAMBDA r : Involves(league_df[i].Team, r)) > 0
          /\ {league_df[i].Team : i \in DOMAIN league_df} =
                {t \in Range(IterationOrder) : Count(filtered_df, LAMBDA r : Involves(t, r)) > 0}
          /\ league_df = league_df_of(filtered_df, IterationOrder)

\* C10: without a refresh or an upload the loaded dataset never changes, and
\* after any sequence of interactions the filtered view and the league table
\* are those of the dataset and the current widget state alone.
C10_Snapshot ==
    /\ [][source' = source => (df' = df /\ columns' = columns)]_vars
    /\ [](pc = "shown" => FreshView)

\* a view narrowed by a changed team selection and a changed goals range
C10_Witness ==
    /\ Shown("league_table")
    /\ selected_teams # SubSeq(all_teams(df), 1, Len(all_teams(df)))
    /\ <<min_goals, max_goals>> # <<0, DefaultMaxGoals>>
    /\ Len(filtered_df) < Len(df)
====
